---- MODULE Spec2Model ----
(***************************************************************************)
(* A state-machine model of demo/setup_demo_data.py: the seeded generators *)
(* (customers, products, orders, events), the helpers they sample with     *)
(* (random_date, seasonal_date, pareto_choice) and load_data, which writes *)
(* the generated rows into the DuckDB file.                                *)
(*                                                                         *)
(* Dates are day numbers counted from 2024-01-01 (day 0); a datetime is a  *)
(* pair <<day, minute of the day>>.  random.random() is a value in 0..99   *)
(* (hundredths), so that `random.random() < 0.30` reads `r < 30`.          *)
(***************************************************************************)
EXTENDS Integers, Sequences, FiniteSets, TLC

VARIABLES
    cfg,        \* the configuration constants of the run (lines 27-35, 78-83, 176)
    pc,         \* position of the run in the script and in load_data
    tape,       \* the stream of draws the seeded random source yields in this run
    customers,  \* load_data: the rows generate_customers returned
    products,   \* load_data: the rows generate_products returned
    orders,     \* load_data: the rows generate_orders returned
    events,     \* generate_events: rows (the rows returned, once it has returned)
    duplicate_target,   \* generate_orders: the index drawn at line 176
    eid,        \* generate_events: the next event id
    session_counter,    \* generate_events: the next session number
    ev_pc,      \* generate_events: position inside the while loop
    ev_session, \* generate_events: cid, device, session_id, base_date of the session
    step,       \* load_data: the index of the statement inside the loop or list at pc
    error,      \* the exception that ended the run (None while there is none)
    con,        \* load_data: the DuckDB connection: "none", "open" or "closed"
    db,         \* the database file: for each table, None or Some(its rows)
    log,        \* history: the calls the run has made, in order, each with its outcome
    history,    \* history: how each earlier run against the same file ended
    sd_pc,      \* seasonal_date: position of the call
    sd_d,       \* seasonal_date: the date drawn by random_date
    sd_ret,     \* seasonal_date: the date returned (None before the return)
    sd_retried  \* seasonal_date: the call in progress has rejected a date (history)

sdVars == <<sd_pc, sd_d, sd_ret, sd_retried>>
genVars == <<tape, customers, products, orders, duplicate_target>>
evVars == <<events, eid, session_counter, ev_pc, ev_session>>
dbVars == <<step, error, con, db, log, history>>
vars == <<cfg, pc, genVars, evVars, dbVars, sdVars>>

\* Python's None; a value that may be absent is <<>> or <<v>>
None == <<>>
Some(v) == <<v>>

---------------------------------------------------------------------------
(* The calendar: datetime(2024, 1, 1) is day 0.                            *)

EpochYear == 2024

IsLeap(y) == (y % 4 = 0 /\ y % 100 # 0) \/ y % 400 = 0

DaysInYear(y) == IF IsLeap(y) THEN 366 ELSE 365

DaysInMonth(y, m) ==
    IF m = 2 THEN (IF IsLeap(y) THEN 29 ELSE 28)
    ELSE IF m \in {4, 6, 9, 11} THEN 30 ELSE 31

RECURSIVE YearDay(_, _)
\* <<year, day within the year (0-based)>> of day number n counted from 1 Jan of y
YearDay(y, n) == IF n < DaysInYear(y) THEN <<y, n>> ELSE YearDay(y + 1, n - DaysInYear(y))

RECURSIVE MonthDay(_, _, _)
\* <<month, day of the month>> of the 0-based day n of year y, counted from month m
MonthDay(y, m, n) ==
    IF n < DaysInMonth(y, m) THEN <<m, n + 1>> ELSE MonthDay(y, m + 1, n - DaysInMonth(y, m))

\* the calendar date <<year, month, day>> of a day number
YmdOf(n) ==
    LET yd == YearDay(EpochYear, n)
        md == MonthDay(yd[1], 1, yd[2])
    IN  <<yd[1], md[1], md[2]>>

RECURSIVE DaysBeforeYear(_)
DaysBeforeYear(y) == IF y = EpochYear THEN 0 ELSE DaysInYear(y - 1) + DaysBeforeYear(y - 1)

RECURSIVE DaysBeforeMonth(_, _)
DaysBeforeMonth(y, m) == IF m = 1 THEN 0 ELSE DaysInMonth(y, m - 1) + DaysBeforeMonth(y, m - 1)

\* datetime(y, m, d) as a day number
DayNumber(y, m, d) == DaysBeforeYear(y) + DaysBeforeMonth(y, m) + (d - 1)

DATE_START == DayNumber(2024, 1, 1)
DATE_END == DayNumber(2025, 12, 31)

\* the calendar of the configured range and the day after it, as a table
\* (entry n + 1 is the date of day n)
Calendar == [n \in 1 .. (DATE_END - DATE_START) + 2 |-> YmdOf(DATE_START + n - 1)] \o <<>>

Ymd(n) == Calendar[(n - DATE_START) + 1]

\* d.month
MonthOf(n) == Ymd(n)[2]

\* d.strftime("%Y-%m-%d"): the string is its three numbers
FormatDate(n) == Ymd(n)

\* (base + timedelta(minutes=k)).strftime("%Y-%m-%d %H:%M:%S") of a datetime
\* base = <<day, minute of the day>>: the string is its six numbers
FormatDateTime(base, k) ==
    LET total == base[2] + k
        day == base[1] + (total \div 1440)
        minute == total % 1440
    IN  Ymd(day) \o <<minute \div 60, minute % 60, 0>>

RECURSIVE SeqLess(_, _)
\* a < b for two formatted dates: the order of the strings, field by field from the left
SeqLess(a, b) ==
    IF a = <<>> \/ b = <<>> THEN a = <<>> /\ b # <<>>
    ELSE IF Head(a) # Head(b) THEN Head(a) < Head(b)
    ELSE SeqLess(Tail(a), Tail(b))

---------------------------------------------------------------------------
(* The random source.                                                      *)

\* random.random(), in hundredths: the values next to every threshold the
\* program compares a draw with (0.03, 0.10, 0.15, 0.30, 0.50, 0.70) and the
\* two ends of the range
RandomUnit == {0, 2, 3, 9, 10, 14, 15, 29, 30, 49, 50, 69, 70, 99}

\* random.randint(a, b): every integer of a..b
RandInt(a, b) == a .. b

\* random_date(start, end): start + timedelta(days=random.randint(0, delta))
RandomDate(start, end) == {start + k : k \in RandInt(0, end - start)}

\* int(random.paretovariate(alpha)) is an integer >= 1 without an upper limit;
\* for a list of n items the model draws it from 1 .. ParetoLaps * n + 1, which
\* passes every index of the list ParetoLaps times
ParetoLaps == 2
ParetoInts(n) == 1 .. (ParetoLaps * n + 1)

\* The draws that fill the columns of a row are read off a tape: the run's
\* random stream, fixed when the source is seeded (line 37).  Draw(k, i, line, nth)
\* is the raw value tape k yields for item i at the nth draw of source line
\* `line`; each call site reduces it to its own range.
Tapes == 2
Draw(k, i, line, nth) == k * 104729 + i * 7919 + line * 31 + nth

\* random.random() read off the tape, in hundredths
UnitOf(raw) == raw % 100

\* random.randint(a, b) read off the tape
RandIntOf(raw, a, b) == a + (raw % (b - a + 1))

\* random.choice(seq), and random.choices(seq, weights, k=1)[0] with positive weights
ChoiceOf(raw, seq) == seq[(raw % Len(seq)) + 1]

---------------------------------------------------------------------------
(* Configuration, lines 27-35 and 42-89.                                   *)

NUM_CUSTOMERS == 2000
NUM_PRODUCTS == 200
NUM_ORDERS == 10000
NUM_EVENTS == 50000

\* len(FIRST_NAMES), len(LAST_NAMES), len(CITIES); an entry is named by its index
NumFirstNames == 70
NumLastNames == 56
NumCities == 30
\* the five mail domains of make_email and the ten adjectives of generate_products
NumDomains == 5
NumAdjectives == 10

SEGMENTS == <<"enterprise", "mid-market", "smb">>
PAYMENT_METHODS == <<"credit_card", "debit_card", "paypal", "wire_transfer">>
DEVICE_TYPES == <<"desktop", "mobile", "tablet">>
\* the population of quantities at line 182
QUANTITIES == <<1, 2, 3, 4, 5>>

\* CATEGORIES: one entry per category, in insertion order: the number of its
\* subcategories; a subcategory is named <<category index, index in its list>>
CATEGORIES == <<5, 5, 5, 5>>

\* generate_orders, line 176: duplicate_target = random.randint(8050, 8150)
DupLo == 8050
DupHi == 8150
\* a variant with range(4)
DupCount_Short == 5 - 1

\* generate_orders, line 199: for dup_offset in range(5)
DupCount == 5

DefaultConfig ==
    [ num_customers |-> NUM_CUSTOMERS,
      num_products  |-> NUM_PRODUCTS,
      num_orders    |-> NUM_ORDERS,
      num_events    |-> NUM_EVENTS,
      categories    |-> CATEGORIES,
      dup_lo        |-> DupLo,
      dup_hi        |-> DupHi,
      date_start    |-> DATE_START,
      date_end      |-> DATE_END,
      replay        |-> FALSE ]

---------------------------------------------------------------------------
(* pareto_choice(items, alpha), lines 109-112, for the integer v that      *)
(* int(random.paretovariate(alpha)) yields.                                *)

\* a variant that takes v itself as the 0-based index
ParetoIndex_NoModulo(v, n) == v

\* line 111: idx = int(random.paretovariate(alpha)) % len(items)
ParetoIndex(v, n) == v % n

\* line 112: items[idx], a Python list being indexed from 0
ParetoChoice(items, v) == items[ParetoIndex(v, Len(items)) + 1]

---------------------------------------------------------------------------
(* generate_customers(), lines 124-136.                                    *)

\* make_email(first, last, idx): the md5 tag is a function of first, last and
\* idx, so the address is the tuple of these three and the domain drawn
MakeEmail(first, last, idx, raw) == <<first, last, idx, 1 + (raw % NumDomains)>>

\* the row appended at line 135 for customer i
CustomerRow(i, k, c) ==
    LET first == 1 + (Draw(k, i, 127, 0) % NumFirstNames)
        last == 1 + (Draw(k, i, 128, 0) % NumLastNames)
        email == MakeEmail(first, last, i, Draw(k, i, 117, 0))
        city == IF UnitOf(Draw(k, i, 132, 1)) >= 3
                THEN Some(1 + (Draw(k, i, 132, 0) % NumCities)) ELSE None
        signup_date == FormatDate(RandIntOf(Draw(k, i, 133, 0), c.date_start, c.date_end))
        segment == ChoiceOf(Draw(k, i, 134, 0), SEGMENTS)
    IN  <<i, <<first, last>>, email, city, signup_date, segment>>

GenerateCustomersRows(k, c) == [i \in 1 .. c.num_customers |-> CustomerRow(i, k, c)]

---------------------------------------------------------------------------
(* generate_products(), lines 139-167.  A result is [raised |-> the name  *)
(* of the exception, rows |-> the rows appended so far].                   *)

\* round(x / 100) for x >= 0: Python's round(.., 2) of an amount kept in cents
RoundCents(x) == (x + 50) \div 100

\* lines 149-156 (planted = TRUE) and 163-165 (planted = FALSE): cost in cents,
\* uniform(5, 200), and the list price from the factor drawn, in hundredths
ProductRow(pid, cat, subcat, k, planted) ==
    LET adj == 1 + (Draw(k, pid, 147, 0) % NumAdjectives)
        cost == RandIntOf(Draw(k, pid, 149, 0), 500, 20000)
        low == planted /\ UnitOf(Draw(k, pid, 151, 0)) < 3
        factor == IF low THEN RandIntOf(Draw(k, pid, 152, 0), 50, 90)
                  ELSE RandIntOf(Draw(k, pid, 154, 0), 120, 300)
    IN  <<pid, <<adj, subcat, pid>>, cat, subcat, cost, RoundCents(cost * factor)>>

\* a variant that divides by the number of categories alone
PerSubcat_PerCategory(n, cats, cat) == n \div Len(cats)

\* line 144: per_subcat = NUM_PRODUCTS // (len(CATEGORIES) * len(subcats))
PerSubcat(n, cats, cat) == n \div (Len(cats) * cats[cat])

RECURSIVE EvenLoop(_, _, _, _, _, _)
\* lines 143-156 from category cat, subcategory sub, repetition rep on, rows
\* being the rows appended so far (pid = len(rows) + 1 throughout)
EvenLoop(rows, cat, sub, rep, n, ck) ==
    LET cats == ck[1]
    IN  IF cat > Len(cats) THEN [raised |-> None, rows |-> rows]
        ELSE IF cats[cat] = 0 THEN [raised |-> Some("ZeroDivisionError"), rows |-> rows]
        ELSE IF sub > cats[cat] THEN EvenLoop(rows, cat + 1, 1, 1, n, ck)
        ELSE IF rep > PerSubcat(n, cats, cat) THEN EvenLoop(rows, cat, sub + 1, 1, n, ck)
        ELSE EvenLoop(Append(rows, ProductRow(Len(rows) + 1, cat, <<cat, sub>>, ck[2], TRUE)),
                      cat, sub, rep + 1, n, ck)

RECURSIVE TopUpLoop(_, _, _)
\* lines 158-166: while len(rows) < NUM_PRODUCTS
TopUpLoop(rows, n, ck) ==
    LET cats == ck[1]
        pid == Len(rows) + 1
    IN  IF Len(rows) >= n THEN [raised |-> None, rows |-> rows]
        ELSE IF Len(cats) = 0 THEN [raised |-> Some("IndexError"), rows |-> rows]
        ELSE LET cat == 1 + (Draw(ck[2], pid, 159, 0) % Len(cats))
             IN  IF cats[cat] = 0 THEN [raised |-> Some("IndexError"), rows |-> rows]
                 ELSE LET sub == 1 + (Draw(ck[2], pid, 160, 0) % cats[cat])
                      IN  TopUpLoop(Append(rows, ProductRow(pid, cat, <<cat, sub>>, ck[2], FALSE)),
                                    n, ck)

GenerateProductsResult(k, c) ==
    LET even == EvenLoop(<<>>, 1, 1, 1, c.num_products, <<c.categories, k>>)
    IN  IF even.raised # None THEN even
        ELSE TopUpLoop(even.rows, c.num_products, <<c.categories, k>>)

---------------------------------------------------------------------------
(* seasonal_date(start, end), lines 97-106.  The retry is a tail call: the *)
(* caller returns whatever the inner call returns, so a retry is a new     *)
(* draw in the same position.                                              *)

\* line 102: the drawn date is in October-December
InQ4Months(month) == month \in {10, 11, 12}

\* a variant that also rejects April dates
RetryQ1_WithApril(month, r) == month \in {1, 2, 3, 4} /\ r < 30

\* line 104: the drawn date is in January-March and the draw r is below 0.30
RetryQ1(month, r) == month \in {1, 2, 3} /\ r < 30

\* the call seasonal_date(cfg.date_start, cfg.date_end)
SdCall ==
    /\ sd_pc = "idle"
    /\ sd_pc' = "draw"
    /\ sd_d' = None
    /\ sd_ret' = None
    /\ sd_retried' = FALSE
    /\ UNCHANGED <<cfg, pc, genVars, evVars, dbVars, dbVars>>

\* line 99: d = random_date(start, end)
SdDraw ==
    /\ sd_pc = "draw"
    /\ \E d \in RandomDate(cfg.date_start, cfg.date_end) : sd_d' = Some(d)
    /\ sd_pc' = "check"
    /\ UNCHANGED <<cfg, pc, genVars, evVars, dbVars, sd_ret, sd_retried>>

\* lines 102-103: always accept Q4
SdAcceptQ4 ==
    /\ sd_pc = "check"
    /\ InQ4Months(MonthOf(sd_d[1]))
    /\ sd_ret' = sd_d
    /\ sd_pc' = "idle"
    /\ UNCHANGED <<cfg, pc, genVars, evVars, dbVars, sd_d, sd_retried>>

\* lines 104-105: reject a Q1 date and sample again
SdRetry ==
    /\ sd_pc = "check"
    /\ ~InQ4Months(MonthOf(sd_d[1]))
    /\ \E r \in RandomUnit : RetryQ1(MonthOf(sd_d[1]), r)
    /\ sd_pc' = "draw"
    /\ sd_retried' = TRUE
    /\ UNCHANGED <<cfg, pc, genVars, evVars, dbVars, sd_d, sd_ret>>

\* line 106: return d
SdAccept ==
    /\ sd_pc = "check"
    /\ ~InQ4Months(MonthOf(sd_d[1]))
    /\ \E r \in RandomUnit : ~RetryQ1(MonthOf(sd_d[1]), r)
    /\ sd_ret' = sd_d
    /\ sd_pc' = "idle"
    /\ UNCHANGED <<cfg, pc, genVars, evVars, dbVars, sd_d, sd_retried>>

SdReturn == SdAcceptQ4 \/ SdAccept

---------------------------------------------------------------------------
(* generate_orders(customers, products), lines 170-203.                    *)

RECURSIVE SeasonalDateOf(_, _, _, _)
\* seasonal_date(c.date_start, c.date_end) with its draws read off tape k for
\* order i; a is the number of dates rejected so far
SeasonalDateOf(k, i, a, c) ==
    LET d == RandIntOf(Draw(k, i, 99, 2 * a), c.date_start, c.date_end)
        month == MonthOf(d)
        r == UnitOf(Draw(k, i, 104, 2 * a + 1))
    IN  IF InQ4Months(month) THEN d
        ELSE IF RetryQ1(month, r) THEN SeasonalDateOf(k, i, a + 1, c)
        ELSE d

\* line 172, and line 173: [row[0] for row in rows]
IdsOf(rows) == [j \in 1 .. Len(rows) |-> rows[j][1]]

\* line 174: {p[0]: p[5] for p in products}, a later row replacing an earlier
\* one with the same id
ProductPrices(prods) ==
    [id \in {prods[j][1] : j \in 1 .. Len(prods)} |->
        LET last == CHOOSE j \in 1 .. Len(prods) :
                        /\ prods[j][1] = id
                        /\ \A j2 \in 1 .. Len(prods) : prods[j2][1] = id => j2 <= j
        IN  prods[last][6]]

\* lines 187-193
StatusOf(r) == IF r < 10 THEN "cancelled" ELSE IF r < 15 THEN "returned" ELSE "completed"

\* the row appended at line 196 for order i
OrderRow(i, k, c, custs, prods) ==
    LET cid == ParetoChoice(IdsOf(custs),
                            1 + (Draw(k, i, 179, 0) % (ParetoLaps * Len(custs) + 1)))
        pid == ChoiceOf(Draw(k, i, 180, 0), IdsOf(prods))
        order_date == FormatDate(SeasonalDateOf(k, i, 0, c))
        quantity == ChoiceOf(Draw(k, i, 182, 0), QUANTITIES)
        unit_price == ProductPrices(prods)[pid]
        total == unit_price * quantity
        status == StatusOf(UnitOf(Draw(k, i, 187, 0)))
        pm == ChoiceOf(Draw(k, i, 195, 0), PAYMENT_METHODS)
    IN  <<i, cid, order_date, pid, quantity, unit_price, total, status, pm>>

RECURSIVE DuplicateLoop(_, _, _)
\* lines 199-201 from dup_offset = off on: src = rows[duplicate_target + dup_offset]
\* (a Python list is indexed from 0, and the index is never negative), then
\* rows.append(src); rows is the list as grown so far
DuplicateLoop(rows, target, off) ==
    IF off >= DupCount THEN [raised |-> None, rows |-> rows]
    ELSE IF target + off >= Len(rows) THEN [raised |-> Some("IndexError"), rows |-> rows]
    ELSE DuplicateLoop(Append(rows, rows[target + off + 1]), target, off + 1)

\* lines 178-196: the rows of the for loop
GeneratedOrders(k, c, custs, prods) ==
    [i \in 1 .. c.num_orders |-> OrderRow(i, k, c, custs, prods)]

---------------------------------------------------------------------------
(* generate_events(customers), lines 206-250, one action per event.        *)

\* lines 222-224 and the like: eid += 1, then break when eid > NUM_EVENTS;
\* a variant that never breaks
AfterAppend_NoBreak(next) == next

\* the position after an append: "break" once eid + 1 exceeds NUM_EVENTS
AfterAppend(next) == IF eid + 1 > cfg.num_events THEN "break" ELSE next

\* a variant whose checkout offsets start with the add_to_cart ones
CheckoutMinutes_Overlap == RandInt(10, 20)

\* the minute offsets of lines 228, 236 and 244
CartMinutes == RandInt(1, 10)
CheckoutMinutes == RandInt(11, 20)
PurchaseMinutes == RandInt(21, 30)

\* the element of the set S of integers that raw selects
Pick(S, raw) ==
    CHOOSE x \in S : Cardinality({y \in S : y < x}) = raw % Cardinality(S)

\* the outcomes of the nth draw of source line `line` for the event eid, S
\* being the values the draw can yield: every value of S, or, in a run that
\* replays its seeded stream (cfg.replay), the one value the tape holds
Outcomes(S, line, nth) ==
    IF cfg.replay THEN {Pick(S, Draw(tape, eid, line, nth))} ELSE S

\* the tuple appended at lines 221, 229, 237 and 245
EventRow(type, minutes) ==
    << eid, ev_session.cid, type, FormatDateTime(ev_session.base_date, minutes),
       ev_session.session_id, ev_session.device >>

\* lines 207-210
EvCall ==
    /\ pc = "gen_events"
    /\ ev_pc = "idle"
    /\ events' = <<>>
    /\ eid' = 1
    /\ session_counter' = 1
    /\ ev_pc' = "loop"
    /\ UNCHANGED <<cfg, pc, genVars, ev_session, dbVars, sdVars>>

\* lines 212-224: a new session and its page_view
EvPageView ==
    /\ pc = "gen_events"
    /\ ev_pc = "loop"
    /\ eid <= cfg.num_events
    /\ \E v \in Outcomes(ParetoInts(Len(customers)), 213, 0),
          j \in Outcomes(1 .. Len(DEVICE_TYPES), 214, 0),
          day \in Outcomes(RandomDate(cfg.date_start, cfg.date_end), 217, 0) :
            LET session == [ cid |-> ParetoChoice(IdsOf(customers), v),
                             device |-> DEVICE_TYPES[j],
                             session_id |-> <<"sess", session_counter>>,
                             base_date |-> <<day, 0>> ]
            IN  /\ ev_session' = session
                /\ events' = Append(events,
                                    << eid, session.cid, "page_view",
                                       FormatDateTime(session.base_date, 0),
                                       session.session_id, session.device >>)
    /\ session_counter' = session_counter + 1
    /\ eid' = eid + 1
    /\ ev_pc' = AfterAppend("cart")
    /\ UNCHANGED <<cfg, pc, genVars, dbVars, sdVars>>

\* lines 227-232: add_to_cart
EvAddToCart ==
    /\ pc = "gen_events"
    /\ ev_pc = "cart"
    /\ \E r \in Outcomes(RandomUnit, 227, 0) : r < 30
    /\ \E m \in Outcomes(CartMinutes, 228, 0) : events' = Append(events, EventRow("add_to_cart", m))
    /\ eid' = eid + 1
    /\ ev_pc' = AfterAppend("checkout")
    /\ UNCHANGED <<cfg, pc, genVars, session_counter, ev_session, dbVars, sdVars>>

\* lines 235-240: checkout_start
EvCheckout ==
    /\ pc = "gen_events"
    /\ ev_pc = "checkout"
    /\ \E r \in Outcomes(RandomUnit, 235, 0) : r < 50
    /\ \E m \in Outcomes(CheckoutMinutes, 236, 0) : events' = Append(events, EventRow("checkout_start", m))
    /\ eid' = eid + 1
    /\ ev_pc' = AfterAppend("purchase")
    /\ UNCHANGED <<cfg, pc, genVars, session_counter, ev_session, dbVars, sdVars>>

\* lines 243-248: purchase
EvPurchase ==
    /\ pc = "gen_events"
    /\ ev_pc = "purchase"
    /\ \E r \in Outcomes(RandomUnit, 243, 0) : r < 70
    /\ \E m \in Outcomes(PurchaseMinutes, 244, 0) : events' = Append(events, EventRow("purchase", m))
    /\ eid' = eid + 1
    /\ ev_pc' = AfterAppend("loop")
    /\ UNCHANGED <<cfg, pc, genVars, session_counter, ev_session, dbVars, sdVars>>

\* lines 227, 235, 243: the draw is not below the threshold, the session ends
EvSessionEnds ==
    /\ pc = "gen_events"
    /\ \/ ev_pc = "cart" /\ \E r \in Outcomes(RandomUnit, 227, 0) : ~(r < 30)
       \/ ev_pc = "checkout" /\ \E r \in Outcomes(RandomUnit, 235, 0) : ~(r < 50)
       \/ ev_pc = "purchase" /\ \E r \in Outcomes(RandomUnit, 243, 0) : ~(r < 70)
    /\ ev_pc' = "loop"
    /\ UNCHANGED <<cfg, pc, genVars, events, eid, session_counter, ev_session, dbVars, sdVars>>

\* line 250, after a break or when the while condition fails; line 263 keeps
\* the rows in `events`
EvReturn ==
    /\ pc = "gen_events"
    /\ ev_pc = "break" \/ (ev_pc = "loop" /\ ~(eid <= cfg.num_events))
    /\ ev_pc' = "returned"
    /\ pc' = "connect"
    /\ log' = Append(log, <<"generate", "events", TRUE>>)
    /\ UNCHANGED <<cfg, genVars, events, eid, session_counter, ev_session,
                   step, error, con, db, history, sdVars>>

GenerateEvents ==
    EvCall \/ EvPageView \/ EvAddToCart \/ EvCheckout \/ EvPurchase \/ EvSessionEnds \/ EvReturn


---------------------------------------------------------------------------
(* The script: the seeding at import (line 37), then load_data, lines      *)
(* 256-380.  An exception is caught nowhere: it ends the run, pc "failed". *)

\* a variant of raising that goes on with the run
Raise_Continue(e, entry) ==
    /\ pc' = pc
    /\ error' = Some(e)
    /\ log' = Append(log, entry)

\* the run ends with exception e raised by call `entry`
Raise(e, entry) ==
    /\ pc' = "failed"
    /\ error' = Some(e)
    /\ log' = Append(log, entry)

\* line 37: random.seed(SEED) fixes the stream of the run
Seed ==
    /\ pc = "import"
    /\ \E k \in 0 .. Tapes - 1 : tape' = k
    /\ pc' = "makedirs"
    /\ UNCHANGED <<cfg, customers, products, orders, duplicate_target, evVars, dbVars, sdVars>>

\* line 257: os.makedirs(..., exist_ok=True)
Makedirs ==
    /\ pc = "makedirs"
    /\ pc' = "gen_customers"
    /\ log' = Append(log, <<"makedirs", "data", TRUE>>)
    /\ UNCHANGED <<cfg, genVars, evVars, step, error, con, db, history, sdVars>>

\* line 257 raising OSError
MakedirsFails ==
    /\ pc = "makedirs"
    /\ Raise("OSError", <<"makedirs", "data", FALSE>>)
    /\ UNCHANGED <<cfg, genVars, evVars, step, con, db, history, sdVars>>

\* line 260
GenerateCustomers ==
    /\ pc = "gen_customers"
    /\ customers' = GenerateCustomersRows(tape, cfg)
    /\ pc' = "gen_products"
    /\ log' = Append(log, <<"generate", "customers", TRUE>>)
    /\ UNCHANGED <<cfg, tape, products, orders, duplicate_target, evVars,
                   step, error, con, db, history, sdVars>>

\* line 261
GenerateProducts ==
    /\ pc = "gen_products"
    /\ LET res == GenerateProductsResult(tape, cfg)
       IN  IF res.raised # None
           THEN /\ Raise(res.raised[1], <<"generate", "products", FALSE>>)
                /\ UNCHANGED products
           ELSE /\ products' = res.rows
                /\ pc' = "gen_orders"
                /\ log' = Append(log, <<"generate", "products", TRUE>>)
                /\ UNCHANGED error
    /\ UNCHANGED <<cfg, tape, customers, orders, duplicate_target, evVars,
                   step, con, db, history, sdVars>>

\* line 262: the draw of line 176, the for loop of lines 178-196, then the
\* duplicates of lines 199-201
GenerateOrders ==
    /\ pc = "gen_orders"
    /\ LET rows == GeneratedOrders(tape, cfg, customers, products)
       IN  \E target \in RandInt(cfg.dup_lo, cfg.dup_hi) :
            LET res == DuplicateLoop(rows, target, 0)
            IN  /\ duplicate_target' = Some(target)
                /\ IF res.raised # None
                   THEN /\ Raise(res.raised[1], <<"generate", "orders", FALSE>>)
                        /\ UNCHANGED orders
                   ELSE /\ orders' = res.rows
                        /\ pc' = "gen_events"
                        /\ log' = Append(log, <<"generate", "orders", TRUE>>)
                        /\ UNCHANGED error
    /\ UNCHANGED <<cfg, tape, customers, products, evVars, step, con, db, history, sdVars>>

---------------------------------------------------------------------------
(* The database part of load_data, lines 265-380.  A statement raises when *)
(* DuckDB rejects it (CatalogException, ConstraintException) or when the   *)
(* environment fails it (IOException).                                     *)

\* line 269: the tables in the order they are dropped
DROP_ORDER == <<"events", "orders", "products", "customers">>

\* lines 273-328: the tables in the order they are created and filled
TABLES == <<"customers", "products", "orders", "events">>

\* lines 335-372: the summary queries, in order
QUERIES ==
    << "count customers", "count products", "count orders", "count events",
       "date_range", "revenue", "cancel_rate", "null_cities", "mispriced",
       "dup_orders", "funnel" >>

\* the list load_data passes to executemany for table t (lines 319-328)
RowsOf(t) ==
    CASE t = "customers" -> customers
      [] t = "products" -> products
      [] t = "orders" -> orders
      [] t = "events" -> events

\* customers and products declare their first column PRIMARY KEY (lines 275, 285)
HasPrimaryKey(t) == t \in {"customers", "products"}

\* a variant of DROP TABLE that leaves the table in place
DropTable_Keep(d, t) == d

\* DROP TABLE IF EXISTS t
DropTable(d, t) == [d EXCEPT ![t] = None]

\* CREATE TABLE t, for a table that does not exist
CreateTable(d, t) == [d EXCEPT ![t] = Some(<<>>)]

\* the first m of rows appended to table t
InsertRows(d, t, rows, m) == [d EXCEPT ![t] = Some(d[t][1] \o SubSeq(rows, 1, m))]

\* the number of rows, from the first on, that table t takes before a row
\* repeats a primary key: all of them when none does
AcceptedRows(d, t, rows) ==
    LET held == {d[t][1][j][1] : j \in 1 .. Len(d[t][1])}
        clash == {j \in 1 .. Len(rows) :
                    \/ rows[j][1] \in held
                    \/ \E i \in 1 .. j - 1 : rows[i][1] = rows[j][1]}
    IN  IF ~HasPrimaryKey(t) \/ clash = {} THEN Len(rows)
        ELSE (CHOOSE j \in clash : \A j2 \in clash : j <= j2) - 1

\* line 342-345: SUM over no row is NULL, and formatting None with ",.2f" raises
RevenueIsNull(d) ==
    ~\E j \in 1 .. Len(d["orders"][1]) : d["orders"][1][j][8] = "completed"

\* the position after statement `step` of a list of n: the next one, or `next`
Advance(n, next) ==
    IF step < n THEN pc' = pc /\ step' = step + 1
    ELSE pc' = next /\ step' = 1

\* line 266: con = duckdb.connect(DB_PATH)
Connect ==
    /\ pc = "connect"
    /\ con' = "open"
    /\ pc' = "drop"
    /\ step' = 1
    /\ log' = Append(log, <<"connect", "db", TRUE>>)
    /\ UNCHANGED <<cfg, genVars, evVars, error, db, history, sdVars>>

\* line 266 raising
ConnectFails ==
    /\ pc = "connect"
    /\ Raise("IOException", <<"connect", "db", FALSE>>)
    /\ UNCHANGED <<cfg, genVars, evVars, step, con, db, history, sdVars>>

\* lines 269-270, one table
ExecDrop ==
    /\ pc = "drop"
    /\ db' = DropTable(db, DROP_ORDER[step])
    /\ log' = Append(log, <<"drop", DROP_ORDER[step], TRUE>>)
    /\ Advance(Len(DROP_ORDER), "create")
    /\ UNCHANGED <<cfg, genVars, evVars, error, con, history, sdVars>>

\* lines 273-315, one table
ExecCreate ==
    /\ pc = "create"
    /\ IF db[TABLES[step]] # None
       THEN /\ Raise("CatalogException", <<"create", TABLES[step], FALSE>>)
            /\ UNCHANGED <<step, db>>
       ELSE /\ db' = CreateTable(db, TABLES[step])
            /\ log' = Append(log, <<"create", TABLES[step], TRUE>>)
            /\ Advance(Len(TABLES), "insert")
            /\ UNCHANGED error
    /\ UNCHANGED <<cfg, genVars, evVars, con, history, sdVars>>

\* lines 319-328, one executemany
ExecInsert ==
    /\ pc = "insert"
    /\ LET t == TABLES[step]
           rows == RowsOf(t)
       IN  IF db[t] = None
           THEN /\ Raise("CatalogException", <<"insert", t, FALSE>>)
                /\ UNCHANGED <<step, db>>
           ELSE IF AcceptedRows(db, t, rows) < Len(rows)
           THEN /\ Raise("ConstraintException", <<"insert", t, FALSE>>)
                /\ db' = InsertRows(db, t, rows, AcceptedRows(db, t, rows))
                /\ UNCHANGED step
           ELSE /\ db' = InsertRows(db, t, rows, Len(rows))
                /\ log' = Append(log, <<"insert", t, TRUE>>)
                /\ Advance(Len(TABLES), "query")
                /\ UNCHANGED error
    /\ UNCHANGED <<cfg, genVars, evVars, con, history, sdVars>>

\* lines 335-372, one query and the printing of its result
ExecQuery ==
    /\ pc = "query"
    /\ IF QUERIES[step] = "revenue" /\ RevenueIsNull(db)
       THEN /\ Raise("TypeError", <<"query", QUERIES[step], FALSE>>)
            /\ UNCHANGED step
       ELSE /\ log' = Append(log, <<"query", QUERIES[step], TRUE>>)
            /\ Advance(Len(QUERIES), "close")
            /\ UNCHANGED error
    /\ UNCHANGED <<cfg, genVars, evVars, con, db, history, sdVars>>

\* a DROP, a CREATE or a query failed by the environment
StatementFails ==
    /\ \/ pc = "drop" /\ Raise("IOException", <<"drop", DROP_ORDER[step], FALSE>>)
       \/ pc = "create" /\ Raise("IOException", <<"create", TABLES[step], FALSE>>)
       \/ pc = "query" /\ Raise("IOException", <<"query", QUERIES[step], FALSE>>)
    /\ UNCHANGED <<cfg, genVars, evVars, step, con, db, history, sdVars>>

\* an executemany failed by the environment part-way: the table exists and
\* has taken the first m rows of the batch
InsertFails ==
    /\ pc = "insert"
    /\ db[TABLES[step]] # None
    /\ \E m \in 0 .. Len(RowsOf(TABLES[step])) :
        db' = InsertRows(db, TABLES[step], RowsOf(TABLES[step]), m)
    /\ Raise("IOException", <<"insert", TABLES[step], FALSE>>)
    /\ UNCHANGED <<cfg, genVars, evVars, step, con, history, sdVars>>

\* line 380: con.close(), and the return of load_data
Close ==
    /\ pc = "close"
    /\ con' = "closed"
    /\ pc' = "done"
    /\ log' = Append(log, <<"close", "db", TRUE>>)
    /\ UNCHANGED <<cfg, genVars, evVars, step, error, db, history, sdVars>>

\* the script is run again against the same file: a new process, in which
\* nothing of the earlier one is left but the file
MaxRuns == 2
Rerun ==
    /\ pc \in {"done", "failed"}
    /\ Len(history) + 1 < MaxRuns
    /\ history' = Append(history, [outcome |-> pc, last |-> log[Len(log)]])
    /\ pc' = "import"
    /\ tape' = None
    /\ customers' = <<>>
    /\ products' = <<>>
    /\ orders' = <<>>
    /\ duplicate_target' = None
    /\ events' = <<>>
    /\ eid' = 1
    /\ session_counter' = 1
    /\ ev_pc' = "idle"
    /\ ev_session' = None
    /\ step' = 0
    /\ error' = None
    /\ con' = "none"
    /\ log' = <<>>
    /\ UNCHANGED <<cfg, db, sdVars>>

LoadData ==
    \/ Makedirs
    \/ MakedirsFails
    \/ GenerateCustomers
    \/ GenerateProducts
    \/ GenerateOrders
    \/ GenerateEvents
    \/ Connect
    \/ ConnectFails
    \/ ExecDrop
    \/ ExecCreate
    \/ ExecInsert
    \/ ExecQuery
    \/ StatementFails
    \/ InsertFails
    \/ Close

---------------------------------------------------------------------------
(* Bounds of the model, and the configurations the specifications run.     *)

SmallCustomers == 2
SmallProducts == 2
SmallOrders == 6
SmallEvents == 4
SmallDays == 1
MaxProducts == 4
MaxCategories == 2
MaxSubcats == 2

\* a configuration scaled down: the duplicated run of line 176 is drawn from
\* every index that leaves DupCount rows after it
SmallConfig ==
    [ num_customers |-> SmallCustomers,
      num_products  |-> SmallProducts,
      num_orders    |-> SmallOrders,
      num_events    |-> SmallEvents,
      categories    |-> <<1, 1>>,
      dup_lo        |-> 0,
      dup_hi        |-> SmallOrders - DupCount,
      date_start    |-> DATE_START,
      date_end      |-> DATE_START + SmallDays - 1,
      replay        |-> FALSE ]

\* the default orders, for scaled-down customers and products
OrdersConfig ==
    [DefaultConfig EXCEPT !.num_customers = SmallCustomers,
                          !.num_products = SmallProducts,
                          !.categories = <<1, 1>>]

\* every taxonomy of at most MaxCategories categories with at most MaxSubcats
\* subcategories each, the empty ones included
Taxonomies == UNION {[1 .. l -> 0 .. MaxSubcats] : l \in 0 .. MaxCategories}

TableSet == {"customers", "products", "orders", "events"}

IdleGen ==
    /\ tape = None
    /\ customers = <<>>
    /\ products = <<>>
    /\ orders = <<>>
    /\ duplicate_target = None

IdleEvents ==
    /\ events = <<>>
    /\ eid = 1
    /\ session_counter = 1
    /\ ev_pc = "idle"
    /\ ev_session = None

IdleDb ==
    /\ step = 0
    /\ error = None
    /\ con = "none"
    /\ db = [t \in TableSet |-> None]
    /\ log = <<>>
    /\ history = <<>>

IdleSeasonal ==
    /\ sd_pc = "idle"
    /\ sd_d = None
    /\ sd_ret = None
    /\ sd_retried = FALSE

\* seasonal_date alone, over the configured range of dates
InitSeasonal ==
    /\ cfg = DefaultConfig
    /\ pc = "seasonal_date"
    /\ IdleGen
    /\ IdleEvents
    /\ IdleDb
    /\ IdleSeasonal

NextSeasonal == SdCall \/ SdDraw \/ SdAcceptQ4 \/ SdRetry \/ SdAccept

SpecSeasonal == InitSeasonal /\ [][NextSeasonal]_vars

\* the draws are fair: a call is made to completion, and the accepting branch,
\* possible after every draw, is not passed over forever
SpecSeasonalFair ==
    /\ InitSeasonal
    /\ [][NextSeasonal]_vars
    /\ WF_vars(SdDraw)
    /\ SF_vars(SdReturn)

\* generate_products for every number of products and every taxonomy of the bounds
InitProducts ==
    /\ cfg \in {[SmallConfig EXCEPT !.num_products = n, !.categories = cats] :
                    n \in 0 .. MaxProducts, cats \in Taxonomies}
    /\ pc = "gen_products"
    /\ tape \in 0 .. Tapes - 1
    /\ customers = GenerateCustomersRows(tape, cfg)
    /\ products = <<>>
    /\ orders = <<>>
    /\ duplicate_target = None
    /\ IdleEvents
    /\ step = 0
    /\ error = None
    /\ con = "none"
    /\ db = [t \in TableSet |-> None]
    /\ log = << <<"makedirs", "data", TRUE>>, <<"generate", "customers", TRUE>> >>
    /\ history = <<>>
    /\ IdleSeasonal

SpecProducts == InitProducts /\ [][GenerateProducts]_vars

\* generate_orders with the default NUM_ORDERS and duplicate range
InitOrders ==
    /\ cfg = OrdersConfig
    /\ pc = "gen_orders"
    /\ tape \in 0 .. Tapes - 1
    /\ customers = GenerateCustomersRows(tape, cfg)
    /\ products = GenerateProductsResult(tape, cfg).rows
    /\ orders = <<>>
    /\ duplicate_target = None
    /\ IdleEvents
    /\ step = 0
    /\ error = None
    /\ con = "none"
    /\ db = [t \in TableSet |-> None]
    /\ log = << <<"makedirs", "data", TRUE>>, <<"generate", "customers", TRUE>>, <<"generate", "products", TRUE>> >>
    /\ history = <<>>
    /\ IdleSeasonal

SpecOrders == InitOrders /\ [][GenerateOrders]_vars

\* generate_events for the scaled-down NUM_EVENTS, every draw taken
InitEvents ==
    /\ cfg \in {[SmallConfig EXCEPT !.num_customers = n] : n \in 1 .. SmallCustomers}
    /\ pc = "gen_events"
    /\ tape = 0
    /\ customers = GenerateCustomersRows(tape, cfg)
    /\ products = GenerateProductsResult(tape, cfg).rows
    /\ duplicate_target = Some(cfg.dup_lo)
    /\ orders = DuplicateLoop(GeneratedOrders(tape, cfg, customers, products),
                              cfg.dup_lo, 0).rows
    /\ IdleEvents
    /\ step = 0
    /\ error = None
    /\ con = "none"
    /\ db = [t \in TableSet |-> None]
    /\ log = << <<"makedirs", "data", TRUE>>, <<"generate", "customers", TRUE>>, <<"generate", "products", TRUE>>,
                <<"generate", "orders", TRUE>> >>
    /\ history = <<>>
    /\ IdleSeasonal

SpecEvents == InitEvents /\ [][GenerateEvents]_vars

SpecEventsFair == InitEvents /\ [][GenerateEvents]_vars /\ WF_vars(GenerateEvents)

\* the generation phase of load_data, lines 257-263, scaled down
InitGenerate ==
    /\ cfg = SmallConfig
    /\ pc = "import"
    /\ IdleGen
    /\ IdleEvents
    /\ IdleDb
    /\ IdleSeasonal

NextGenerate ==
    \/ Seed
    \/ Makedirs
    \/ MakedirsFails
    \/ GenerateCustomers
    \/ GenerateProducts
    \/ GenerateOrders
    \/ GenerateEvents

SpecGenerate == InitGenerate /\ [][NextGenerate]_vars

\* the whole script, run up to MaxRuns times against one database file; each
\* run replays the stream its seeding fixed
LoadConfig == [SmallConfig EXCEPT !.num_customers = 1, !.num_events = SmallEvents * 3, !.replay = TRUE]

InitLoad ==
    /\ cfg = LoadConfig
    /\ pc = "import"
    /\ IdleGen
    /\ IdleEvents
    /\ IdleDb
    /\ IdleSeasonal

NextLoad == Seed \/ LoadData \/ Rerun

SpecLoad == InitLoad /\ [][NextLoad]_vars

---------------------------------------------------------------------------
(* C9: seasonal_date returns a date of [start, end]; a drawn date outside  *)
(* January-March (October-December, and April-September) is returned at    *)
(* once; only a drawn January-March date is ever rejected and drawn again; *)
(* and under fair draws a call that has been made returns.                 *)

C9_InRange ==
    sd_ret # None => (cfg.date_start <= sd_ret[1] /\ sd_ret[1] <= cfg.date_end)

C9_AcceptedAtOnce ==
    (sd_pc = "check" /\ MonthOf(sd_d[1]) \notin {1, 2, 3})
        => (sd_pc' = "idle" /\ sd_ret' = sd_d)

C9_OnlyQ1Rejected ==
    (sd_pc = "check" /\ sd_pc' = "draw") => MonthOf(sd_d[1]) \in {1, 2, 3}

C9_SeasonalDate ==
    /\ []C9_InRange
    /\ [][C9_AcceptedAtOnce /\ C9_OnlyQ1Rejected]_vars
    /\ (sd_pc = "draw") ~> (sd_pc = "idle" /\ sd_ret # None)

\* a call that rejected a date, drew again and returned a date of the range
C9_Witness ==
    /\ sd_pc = "idle"
    /\ sd_retried
    /\ sd_ret # None
    /\ cfg.date_start <= sd_ret[1] /\ sd_ret[1] <= cfg.date_end

---------------------------------------------------------------------------
(* C2: funnel monotonicity.  In the rows of generate_events, at any time   *)
(* and in the rows returned, every checkout_start has an add_to_cart of    *)
(* the same session with a strictly earlier timestamp, and every purchase  *)
(* a checkout_start of the same session with a strictly earlier timestamp. *)

HasEarlier(rows, j, type) ==
    \E i \in 1 .. Len(rows) :
        /\ rows[i][3] = type
        /\ rows[i][5] = rows[j][5]
        /\ SeqLess(rows[i][4], rows[j][4])

C2_FunnelMonotone ==
    \A j \in 1 .. Len(events) :
        /\ events[j][3] = "checkout_start" => HasEarlier(events, j, "add_to_cart")
        /\ events[j][3] = "purchase" => HasEarlier(events, j, "checkout_start")

\* generate_events has returned a session cut short after its checkout_start,
\* and a session before it ran to its purchase or ended early
C2_Witness ==
    /\ ev_pc = "returned"
    /\ Len(events) = cfg.num_events
    /\ events[Len(events)][3] = "checkout_start"

---------------------------------------------------------------------------
(* C3: generate_orders never raises for a duplicate_target of 8050..8150;  *)
(* it returns NUM_ORDERS + 5 rows in which every order_id 1..NUM_ORDERS    *)
(* occurs; the rows less the distinct order_ids number 5; the 5 rows at the *)
(* end are copies of 5 consecutive, pairwise distinct rows of the loop.    *)

\* lines 362-364: the count of rows less the count of distinct order_id, over orders
DupOrdersQuery(rows) == Len(rows) - Cardinality({rows[j][1] : j \in 1 .. Len(rows)})

OrdersReturned == pc = "gen_events"

C3_PlantedDuplicates ==
    /\ (pc = "failed") => (error # Some("IndexError"))
    /\ OrdersReturned =>
        LET n == cfg.num_orders
            t == duplicate_target[1]
        IN  /\ n = NUM_ORDERS
            /\ t \in DupLo .. DupHi
            /\ Len(orders) = n + 5
            /\ {orders[j][1] : j \in 1 .. Len(orders)} = 1 .. n
            /\ DupOrdersQuery(orders) = 5
            /\ t + 5 <= n
            /\ \A off \in 0 .. 4 : orders[n + 1 + off] = orders[t + 1 + off]
            /\ \A a, b \in 0 .. 4 : a # b => orders[t + 1 + a] # orders[t + 1 + b]

\* generate_orders has returned for the largest duplicate_target
C3_Witness ==
    /\ OrdersReturned
    /\ duplicate_target = Some(DupHi)
    /\ Len(orders) = NUM_ORDERS + 5
    /\ orders[Len(orders)][1] = DupHi + 5

---------------------------------------------------------------------------
(* C4: generate_events holds at most NUM_EVENTS rows at any time, starts   *)
(* no funnel stage once the count is reached, returns between              *)
(* NUM_EVENTS - 3 and NUM_EVENTS rows, and returns in every run.           *)

C4_NeverOver == Len(events) <= cfg.num_events

C4_StopsAtOnce ==
    ev_pc \in {"cart", "checkout", "purchase"} => Len(events) < cfg.num_events

C4_ReturnedCount ==
    ev_pc = "returned" =>
        (cfg.num_events - 3 <= Len(events) /\ Len(events) <= cfg.num_events)

C4_EventCount ==
    /\ [](C4_NeverOver /\ C4_StopsAtOnce /\ C4_ReturnedCount)
    /\ <>(ev_pc = "returned")

\* generate_events has returned NUM_EVENTS rows, the last session cut short
\* after its add_to_cart
C4_Witness ==
    /\ ev_pc = "returned"
    /\ Len(events) = cfg.num_events
    /\ events[Len(events)][3] = "add_to_cart"

---------------------------------------------------------------------------
(* C7 as stated: for NUM_PRODUCTS >= 0 and a taxonomy with at least one    *)
(* category, generate_products returns NUM_PRODUCTS rows with the ids      *)
(* 1..NUM_PRODUCTS, the even distribution yielding at most NUM_PRODUCTS.   *)

ProductsReturned == pc = "gen_orders"
ProductsRaised == pc = "failed"

ProductsAsConfigured ==
    /\ Len(products) = cfg.num_products
    /\ \A j \in 1 .. Len(products) : products[j][1] = j

EvenAtMost ==
    LET even == EvenLoop(<<>>, 1, 1, 1, cfg.num_products, <<cfg.categories, tape>>)
    IN  Len(even.rows) <= cfg.num_products

C7_AnyNonEmptyTaxonomy ==
    Len(cfg.categories) >= 1 =>
        /\ ~ProductsRaised
        /\ EvenAtMost
        /\ ProductsReturned => ProductsAsConfigured

(* C7 as amended: the same, for a taxonomy with at least one category in   *)
(* which every category has at least one subcategory.                      *)

EverySubcatListNonEmpty == \A c \in 1 .. Len(cfg.categories) : cfg.categories[c] >= 1

C7_ProductCount ==
    (Len(cfg.categories) >= 1 /\ EverySubcatListNonEmpty) =>
        /\ ~ProductsRaised
        /\ EvenAtMost
        /\ ProductsReturned => ProductsAsConfigured

\* generate_products has returned after a top-up: the even distribution fell
\* short of NUM_PRODUCTS
C7_Witness ==
    /\ ProductsReturned
    /\ Len(cfg.categories) >= 1
    /\ EverySubcatListNonEmpty
    /\ cfg.num_products >= 1
    /\ Len(EvenLoop(<<>>, 1, 1, 1, cfg.num_products, <<cfg.categories, tape>>).rows)
            < cfg.num_products
    /\ ProductsAsConfigured

---------------------------------------------------------------------------
(* C10: pareto_choice computes an index of the list for every integer the  *)
(* Pareto draw can yield; every customer_id of an order or an event is the *)
(* id of a generated customer; every product_id of an order is the id of a *)
(* generated product whose list_price is the order's unit_price.           *)

CustomerIds == {customers[j][1] : j \in 1 .. Len(customers)}

C10_ReferentialIntegrity ==
    /\ Len(customers) > 0 =>
        \A v \in ParetoInts(Len(customers)) :
            ParetoIndex(v, Len(customers)) \in 0 .. Len(customers) - 1
    /\ \A j \in 1 .. Len(orders) :
        /\ orders[j][2] \in CustomerIds
        /\ \E p \in 1 .. Len(products) :
            products[p][1] = orders[j][4] /\ products[p][6] = orders[j][6]
    /\ \A j \in 1 .. Len(events) : events[j][2] \in CustomerIds

\* both generators have returned; an order and an event name the last customer
C10_Witness ==
    /\ ev_pc = "returned"
    /\ Len(customers) >= 2
    /\ \E j \in 1 .. Len(orders) : orders[j][2] = customers[Len(customers)][1]
    /\ \E j \in 1 .. Len(events) : events[j][2] = customers[Len(customers)][1]

---------------------------------------------------------------------------
(* C1: whenever load_data is over, by returning or by raising, the        *)
(* connection it opened has been closed.                                  *)

C1_ConnectionClosed == pc \in {"done", "failed"} => con # "open"

---------------------------------------------------------------------------
(* C5: a run against a file that earlier runs left in any state, a run    *)
(* that failed part-way through a bulk insert included, is never failed   *)
(* by what it finds there, and when it succeeds each of the four tables   *)
(* holds exactly the rows this run generated.                             *)

LeftoverErrors == {Some("CatalogException"), Some("ConstraintException")}

C5_RerunReplaces ==
    /\ pc = "done" => \A t \in TableSet : db[t] = Some(RowsOf(t))
    /\ error \notin LeftoverErrors

C5_Witness ==
    /\ pc = "done"
    /\ Len(history) = 1
    /\ history[1].outcome = "failed"
    /\ history[1].last = <<"insert", "orders", FALSE>>
    /\ \A t \in TableSet : db[t] = Some(RowsOf(t))

---------------------------------------------------------------------------
(* C8: the calls of a run are made one after the other in the fixed order *)
(* makedirs, the four generators, connect, the drops, the creates, the    *)
(* inserts, the summary queries, close; a call is made only after all the *)
(* calls before it have succeeded, and a call that fails is the last call *)
(* of the run.                                                            *)

Calls(kind, names) == [j \in 1 .. Len(names) |-> <<kind, names[j]>>]

CallOrder ==
    << <<"makedirs", "data">> >>
    \o Calls("generate", TABLES)
    \o << <<"connect", "db">> >>
    \o Calls("drop", DROP_ORDER)
    \o Calls("create", TABLES)
    \o Calls("insert", TABLES)
    \o Calls("query", QUERIES)
    \o << <<"close", "db">> >>

C8_OrderedFailFast ==
    /\ Len(log) <= Len(CallOrder)
    /\ \A j \in 1 .. Len(log) :
        /\ <<log[j][1], log[j][2]>> = CallOrder[j]
        /\ ~log[j][3] => j = Len(log) /\ pc = "failed"
    /\ con # "none" => \A j \in 1 .. 5 : log[j][3]

C8_Witness ==
    /\ pc = "failed"
    /\ Len(log) = 15
    /\ log[15] = <<"insert", "customers", FALSE>>
    /\ db["products"] = Some(<<>>)

====
